---------------------------- MODULE Spec2Model ----------------------------
(***************************************************************************)
(* Model of sleep_quality_predictor.py: the labelling rule, the label      *)
(* encoders, the console input parsers and the menu-driven session loop.   *)
(*                                                                         *)
(* Text is modelled as a sequence of one-character strings, so that        *)
(* str.lower, str.strip, str.replace, the substring test, strptime and     *)
(* int() are computed character by character.  Hours are whole numbers     *)
(* (calculate_sleep_duration only ever returns whole-valued floats).       *)
(***************************************************************************)
EXTENDS Integers, Sequences, FiniteSets, TLC

VARIABLES
    pc,         \* where the program is blocked: a console prompt, the classifier call, the open figure, or "exit"
    row,        \* the locals of user_input bound so far (field name -> value)
    history,    \* the module-level list `history`
    encoders,   \* the module-level dict `encoders`: column -> fitted classes_
    out,        \* what the latest step printed last ("" if nothing)
    plotted,    \* the sequences handed to plt.plot while the figure is shown
    args,       \* argument of the function under test (function specifications)
    ret         \* its result

vars == <<pc, row, history, encoders, out, plotted, args, ret>>

---------------------------------------------------------------------------
(* Characters and text                                                     *)

UpperCase == <<"A","B","C","D","E","F","G","H","I","J","K","L","M",
               "N","O","P","Q","R","S","T","U","V","W","X","Y","Z">>
LowerCase == <<"a","b","c","d","e","f","g","h","i","j","k","l","m",
               "n","o","p","q","r","s","t","u","v","w","x","y","z">>
Digits == <<"0","1","2","3","4","5","6","7","8","9">>

Range(s) == {s[i] : i \in DOMAIN s}
IndexOf(s, c) == CHOOSE i \in DOMAIN s : s[i] = c

\* ord(c): the code point, for the characters the program's texts use
ord(c) ==
    IF c \in Range(UpperCase) THEN 64 + IndexOf(UpperCase, c)
    ELSE IF c \in Range(LowerCase) THEN 96 + IndexOf(LowerCase, c)
    ELSE IF c \in Range(Digits) THEN 47 + IndexOf(Digits, c)
    ELSE IF c = " " THEN 32
    ELSE IF c = "+" THEN 43
    ELSE IF c = "-" THEN 45
    ELSE IF c = "." THEN 46
    ELSE 58   \* ":"

\* str.lower()
lower(s) ==
    [i \in DOMAIN s |->
        IF s[i] \in Range(UpperCase) THEN LowerCase[IndexOf(UpperCase, s[i])] ELSE s[i]]

RECURSIVE lstrip(_)
lstrip(s) == IF s # <<>> /\ Head(s) = " " THEN lstrip(Tail(s)) ELSE s

RECURSIVE rstrip(_)
rstrip(s) ==
    IF s # <<>> /\ s[Len(s)] = " " THEN rstrip(SubSeq(s, 1, Len(s) - 1)) ELSE s

\* str.strip()
strip(s) == rstrip(lstrip(s))

\* value.replace(" ", "")
remove_spaces(s) == SelectSeq(s, LAMBDA c : c # " ")

\* sub in s
contains(s, sub) ==
    \E i \in 1..(Len(s) - Len(sub) + 1) : SubSeq(s, i, i + Len(sub) - 1) = sub

IsDigit(c) == c \in Range(Digits)
DigitVal(c) == IndexOf(Digits, c) - 1

RECURSIVE DecimalValue(_)
DecimalValue(ds) ==
    IF ds = <<>> THEN 0
    ELSE 10 * DecimalValue(SubSeq(ds, 1, Len(ds) - 1)) + DigitVal(ds[Len(ds)])

AllDigits(s) == s # <<>> /\ \A i \in DOMAIN s : IsDigit(s[i])

\* int(text): surrounding blanks dropped, an optional sign, then digits;
\* anything else raises ValueError
int(text) ==
    LET s == strip(text)
        signed == s # <<>> /\ Head(s) \in {"+", "-"}
        ds == IF signed THEN Tail(s) ELSE s
    IN  IF AllDigits(ds)
        THEN [ok |-> TRUE,
              val |-> IF signed /\ Head(s) = "-" THEN 0 - DecimalValue(ds) ELSE DecimalValue(ds)]
        ELSE [ok |-> FALSE]

---------------------------------------------------------------------------
(* datetime.strptime for the two formats parse_time uses                   *)

\* %I : 1[0-2]|0[1-9]|[1-9]
MatchesI(h) ==
    \/ Len(h) = 2 /\ h[1] = "1" /\ h[2] \in {"0", "1", "2"}
    \/ Len(h) = 2 /\ h[1] = "0" /\ IsDigit(h[2]) /\ h[2] # "0"
    \/ Len(h) = 1 /\ IsDigit(h[1]) /\ h[1] # "0"

\* %H : 2[0-3]|[0-1]\d|\d
MatchesH(h) ==
    \/ Len(h) = 2 /\ h[1] = "2" /\ h[2] \in {"0", "1", "2", "3"}
    \/ Len(h) = 2 /\ h[1] \in {"0", "1"} /\ IsDigit(h[2])
    \/ Len(h) = 1 /\ IsDigit(h[1])

\* %M : [0-5]\d|\d
MatchesM(m) ==
    \/ Len(m) = 2 /\ m[1] \in {"0", "1", "2", "3", "4", "5"} /\ IsDigit(m[2])
    \/ Len(m) = 1 /\ IsDigit(m[1])

\* strptime_I_p with the noon case forgotten: pm always adds 12
strptime_I_p_noon(value) ==
    LET n == Len(value)
        h == SubSeq(value, 1, n - 2)
        p == SubSeq(value, n - 1, n)
    IN  IF n >= 3 /\ p \in {<<"a", "m">>, <<"p", "m">>} /\ MatchesI(h)
        THEN [ok |-> TRUE,
              hour |-> IF p = <<"a", "m">> THEN DecimalValue(h) ELSE DecimalValue(h) + 12]
        ELSE [ok |-> FALSE]

\* datetime.strptime(value, "%I%p").hour : the whole text must be an hour
\* 1..12 followed by am or pm; 12 am is hour 0 and 1..11 pm are 13..23
strptime_I_p(value) ==
    LET n == Len(value)
        h == SubSeq(value, 1, n - 2)
        p == SubSeq(value, n - 1, n)
    IN  IF n >= 3 /\ p \in {<<"a", "m">>, <<"p", "m">>} /\ MatchesI(h)
        THEN LET hour == DecimalValue(h)
             IN  [ok |-> TRUE,
                  hour |-> IF p = <<"a", "m">>
                           THEN (IF hour = 12 THEN 0 ELSE hour)
                           ELSE (IF hour # 12 THEN hour + 12 ELSE hour)]
        ELSE [ok |-> FALSE]

\* datetime.strptime(value, "%H:%M").hour
strptime_H_M(value) ==
    LET n == Len(value)
        colons == {i \in 1..n : value[i] = ":"}
        k == IF colons = {} THEN 0 ELSE CHOOSE i \in colons : \A j \in colons : i <= j
        h == SubSeq(value, 1, k - 1)
        m == SubSeq(value, k + 1, n)
    IN  IF k > 0 /\ MatchesH(h) /\ MatchesM(m)
        THEN [ok |-> TRUE, hour |-> DecimalValue(h)]
        ELSE [ok |-> FALSE]

---------------------------------------------------------------------------
(* Input utilities                                                         *)

MsgTimeExamples == "Examples: 10 pm, 6 am, 22, 22:30"
MsgHourRange == "Hour must be between 0 and 23"
MsgValidNumber == "Enter a valid number"

\* One pass of parse_time's loop on the line read: the hour returned, or
\* the message printed before the prompt is shown again.
parse_time(text) ==
    LET value == lower(strip(text))
    IN  IF contains(value, <<"a", "m">>) \/ contains(value, <<"p", "m">>)
        THEN LET t == strptime_I_p(remove_spaces(value))
             IN  IF t.ok THEN [ok |-> TRUE, hour |-> t.hour]
                 ELSE [ok |-> FALSE, msg |-> MsgTimeExamples]
        ELSE IF contains(value, <<":">>)
        THEN LET t == strptime_H_M(value)
             IN  IF t.ok THEN [ok |-> TRUE, hour |-> t.hour]
                 ELSE [ok |-> FALSE, msg |-> MsgTimeExamples]
        ELSE LET t == int(value)
             IN  IF ~t.ok THEN [ok |-> FALSE, msg |-> MsgTimeExamples]
                 ELSE IF 0 <= t.val /\ t.val <= 23 THEN [ok |-> TRUE, hour |-> t.val]
                 ELSE [ok |-> FALSE, msg |-> MsgHourRange]

\* safe_int falling back to 0 instead of asking again
safe_int_default(text) ==
    LET t == int(text)
    IN  IF t.ok THEN [ok |-> TRUE, val |-> t.val] ELSE [ok |-> TRUE, val |-> 0]

\* One pass of safe_int's loop on the line read
safe_int(text) ==
    LET t == int(text)
    IN  IF t.ok THEN [ok |-> TRUE, val |-> t.val]
        ELSE [ok |-> FALSE, msg |-> MsgValidNumber]

SleepFallback == 8
MaxPlausibleSleep == 14

\* calculate_sleep_duration with ">= 14" for "> 14"
calculate_sleep_duration_ge(bed, wake) ==
    LET duration == (wake - bed) % 24
    IN  IF duration = 0 \/ duration >= MaxPlausibleSleep THEN SleepFallback ELSE duration

calculate_sleep_duration(bed, wake) ==
    LET duration == (wake - bed) % 24
    IN  IF duration = 0 \/ duration > MaxPlausibleSleep THEN SleepFallback ELSE duration

---------------------------------------------------------------------------
(* Category names                                                          *)

StrNone == <<"N", "o", "n", "e">>
StrLow == <<"L", "o", "w">>
StrModerate == <<"M", "o", "d", "e", "r", "a", "t", "e">>
StrHigh == <<"H", "i", "g", "h">>
StrHappy == <<"H", "a", "p", "p", "y">>
StrNeutral == <<"N", "e", "u", "t", "r", "a", "l">>
StrSad == <<"S", "a", "d">>
StrAnxious == <<"A", "n", "x", "i", "o", "u", "s">>
StrGood == <<"G", "o", "o", "d">>
StrAverage == <<"A", "v", "e", "r", "a", "g", "e">>
StrPoor == <<"P", "o", "o", "r">>

CaffeineCategories == <<StrNone, StrLow, StrModerate, StrHigh>>
MoodCategories == <<StrHappy, StrNeutral, StrSad, StrAnxious>>
QualityLabels == {StrGood, StrAverage, StrPoor}

---------------------------------------------------------------------------
(* Labelling rule.  sleep_duration is a float drawn from uniform(4, 9); it *)
(* is modelled on a grid of 1/DurationGrid hours, so a threshold of h      *)
(* hours is h * DurationGrid.                                              *)

DurationGrid == 4

\* label_sleep with "stress < 4" for "stress <= 4"
label_sleep_strict(r) ==
    IF r.sleep_duration >= 7 * DurationGrid /\ r.screen_time < 60
       /\ r.stress < 4 /\ r.interruptions = 0
    THEN StrGood
    ELSE IF r.sleep_duration >= 6 * DurationGrid THEN StrAverage
    ELSE StrPoor

label_sleep(r) ==
    IF r.sleep_duration >= 7 * DurationGrid /\ r.screen_time < 60
       /\ r.stress <= 4 /\ r.interruptions = 0
    THEN StrGood
    ELSE IF r.sleep_duration >= 6 * DurationGrid THEN StrAverage
    ELSE StrPoor

---------------------------------------------------------------------------
(* LabelEncoder                                                            *)

\* a < b as Python compares str: by code point, a proper prefix first
RECURSIVE str_less(_, _)
str_less(a, b) ==
    IF b = <<>> THEN FALSE
    ELSE IF a = <<>> THEN TRUE
    ELSE IF ord(Head(a)) # ord(Head(b)) THEN ord(Head(a)) < ord(Head(b))
    ELSE str_less(Tail(a), Tail(b))

\* np.unique: the distinct values, sorted
RECURSIVE sorted_seq(_)
sorted_seq(S) ==
    IF S = {} THEN <<>>
    ELSE LET least == CHOOSE x \in S : \A y \in S \ {x} : str_less(x, y)
         IN  <<least>> \o sorted_seq(S \ {least})

\* LabelEncoder.fit: classes_
fit(column) == sorted_seq(Range(column))

\* LabelEncoder.transform of one value: its position in classes_, from 0
transform(classes, value) == IndexOf(classes, value) - 1

\* inverse_transform reading classes_ from the wrong end
inverse_transform_reversed(classes, code) == classes[Len(classes) - code]

\* LabelEncoder.inverse_transform of one code
inverse_transform(classes, code) == classes[code + 1]

---------------------------------------------------------------------------
(* Training table.  The 700 sampled rows are stood for by one row per      *)
(* combination the claims need: every caffeine and mood category occurs in *)
(* the table, and the labelling rule yields each of its three labels on    *)
(* it.  sleep_duration is on the DurationGrid.                             *)

TrainRow(sd, caf, scr, st, mood, intr) ==
    [sleep_duration |-> sd, caffeine |-> caf, screen_time |-> scr,
     stress |-> st, mood |-> mood, interruptions |-> intr]

df == << TrainRow(8 * DurationGrid, StrNone, 30, 3, StrHappy, 0),
         TrainRow(8 * DurationGrid, StrLow, 120, 3, StrNeutral, 0),
         TrainRow(6 * DurationGrid, StrModerate, 30, 7, StrSad, 1),
         TrainRow(5 * DurationGrid, StrHigh, 90, 9, StrAnxious, 1),
         TrainRow(7 * DurationGrid, StrNone, 59, 4, StrSad, 0) >>

Column(col) ==
    [i \in DOMAIN df |->
        IF col = "caffeine" THEN df[i].caffeine
        ELSE IF col = "mood" THEN df[i].mood
        ELSE label_sleep(df[i])]

\* the loop that fits one encoder per categorical column
fit_encoders == [col \in {"caffeine", "mood", "sleep_quality"} |-> fit(Column(col))]

\* the class codes the classifier was trained on, hence can predict
ClassCodes == {transform(encoders["sleep_quality"], l) : l \in Range(encoders["sleep_quality"])}

---------------------------------------------------------------------------
(* Console input: the lines a user may type at each kind of prompt         *)

MenuInputs ==
    { <<"1">>,
      <<"2">>,
      <<"3">>,
      <<"4">>,
      <<>>,
      <<" ", "1">> }

TimeInputs ==
    { <<"1", "1", " ", "p", "m">>,
      <<"6", " ", "a", "m">>,
      <<"2", "3", ":", "0", "0">>,
      <<"6">>,
      <<"1", "1", "P", "M">>,
      <<"2", "5">>,
      <<"a", "b", "c">>,
      <<"1", "3", " ", "p", "m">>,
      <<"2", "4", ":", "0", "0">>,
      <<>> }

IntInputs ==
    { <<"0">>,
      <<"1">>,
      <<"-", "5">>,
      <<"1", "1">>,
      <<"a", "b", "c">>,
      <<"1", ".", "5">>,
      <<>> }

CaffeineInputs ==
    { <<"N", "o", "n", "e">>,
      <<"L", "o", "w">>,
      <<"M", "o", "d", "e", "r", "a", "t", "e">>,
      <<"H", "i", "g", "h">>,
      <<"n", "o", "n", "e">>,
      <<"H", "I", "G", "H">>,
      <<"c", "o", "f", "f", "e", "e">>,
      <<" ", "l", "o", "w">> }

MoodInputs ==
    { <<"H", "a", "p", "p", "y">>,
      <<"N", "e", "u", "t", "r", "a", "l">>,
      <<"S", "a", "d">>,
      <<"A", "n", "x", "i", "o", "u", "s">>,
      <<"h", "a", "p", "p", "y">>,
      <<"t", "i", "r", "e", "d">>,
      <<>> }

\* how many predictions a run of the model makes
MaxHistory == 2

---------------------------------------------------------------------------
(* user_input's lookup tables                                              *)

caffeine_map(name) ==
    IF name = lower(StrNone) THEN 0
    ELSE IF name = lower(StrLow) THEN 1
    ELSE IF name = lower(StrModerate) THEN 2
    ELSE 3

caffeine_keys == {lower(StrNone), lower(StrLow), lower(StrModerate), lower(StrHigh)}

mood_map(name) ==
    IF name = lower(StrHappy) THEN 0
    ELSE IF name = lower(StrNeutral) THEN 1
    ELSE IF name = lower(StrSad) THEN 2
    ELSE 3

mood_keys == {lower(StrHappy), lower(StrNeutral), lower(StrSad), lower(StrAnxious)}

\* show_sleep_graph's quality_map
quality_map(label) ==
    IF label = StrPoor THEN 1 ELSE IF label = StrAverage THEN 2 ELSE 3

MsgInvalidOption == "Invalid option"
MsgInvalidMood == "Invalid mood"
MsgStressRange == "Must be between 1 and 10"
MsgUnusual == "Unusual sleep duration detected, setting to 8 hours"
MsgDuration == "Auto-calculated Sleep Duration"
MsgHeader == "--- Sleep Quality Predictor ---"
MsgNoData == "No data to plot yet."
MsgGoodNight == "Good night"

\* what predict prints after the prediction: three tips for Poor, two for
\* Average, one line for Good
Suggestions(result) ==
    IF result = StrPoor
    THEN <<"- Reduce screen time before bed", "- Avoid caffeine at night",
           "- Try relaxation techniques">>
    ELSE IF result = StrAverage
    THEN <<"- Increase sleep duration slightly", "- Maintain consistent bedtime">>
    ELSE <<"- Excellent sleep habits">>

NoRow == [f \in {} |-> 0]
NoPlot == [days |-> <<>>, durations |-> <<>>, quality_values |-> <<>>]

\* the local `field` of user_input bound to `value`
Bind(r, field, value) == (field :> value) @@ r

\* history_entry numbering the days from 0
history_entry_from0(h, duration, result) ==
    [day |-> Len(h), sleep_duration |-> duration, sleep_quality |-> result]

\* the entry predict appends to the history
history_entry(h, duration, result) ==
    [day |-> Len(h) + 1, sleep_duration |-> duration, sleep_quality |-> result]

\* plot_data keeping only the latest entry
plot_data_latest(h) ==
    [days |-> <<h[Len(h)].day>>,
     durations |-> <<h[Len(h)].sleep_duration>>,
     quality_values |-> <<quality_map(h[Len(h)].sleep_quality)>>]

\* the three sequences show_sleep_graph hands to plt.plot
plot_data(h) ==
    [days |-> [i \in DOMAIN h |-> h[i].day],
     durations |-> [i \in DOMAIN h |-> h[i].sleep_duration],
     quality_values |-> [i \in DOMAIN h |-> quality_map(h[i].sleep_quality)]]

---------------------------------------------------------------------------
(* The session: one action per console read, each running the code up to  *)
(* the next blocking call.  `out` holds the lines the step printed, the    *)
(* prompts left out.                                                       *)

Init ==
    /\ pc = "menu"
    /\ row = NoRow
    /\ history = <<>>
    /\ encoders = fit_encoders
    /\ out = <<>>
    /\ plotted = NoPlot
    /\ args = <<>>
    /\ ret = <<>>

\* choice "1": predict() calls user_input(), which prints its header and
\* asks for the bedtime
NewEntryStep(choice) ==
    /\ pc = "menu"
    /\ choice = <<"1">>
    /\ Len(history) < MaxHistory
    /\ pc' = "bedtime"
    /\ row' = NoRow
    /\ out' = <<MsgHeader>>
    /\ UNCHANGED <<history, encoders, plotted, args, ret>>

NewEntry == \E choice \in MenuInputs : NewEntryStep(choice)

\* choice "2": show_sleep_graph(), which blocks in plt.show() when there is
\* something to plot
ViewGraphStep(choice) ==
    /\ pc = "menu"
    /\ choice = <<"2">>
    /\ IF history = <<>>
       THEN /\ out' = <<MsgNoData>>
            /\ UNCHANGED <<pc, plotted>>
       ELSE /\ plotted' = plot_data(history)
            /\ pc' = "plotting"
            /\ out' = <<>>
    /\ UNCHANGED <<row, history, encoders, args, ret>>

ViewGraph == \E choice \in MenuInputs : ViewGraphStep(choice)

\* plt.show() returns when the figure is closed
CloseFigure ==
    /\ pc = "plotting"
    /\ pc' = "menu"
    /\ plotted' = NoPlot
    /\ out' = <<>>
    /\ UNCHANGED <<row, history, encoders, args, ret>>

\* choice "3": break
ExitStep(choice) ==
    /\ pc = "menu"
    /\ choice = <<"3">>
    /\ pc' = "exit"
    /\ out' = <<MsgGoodNight>>
    /\ UNCHANGED <<row, history, encoders, plotted, args, ret>>

Exit == \E choice \in MenuInputs : ExitStep(choice)

\* an unrecognised choice leaving the loop
InvalidChoiceBreaks(choice) ==
    /\ pc = "menu"
    /\ choice \notin {<<"1">>, <<"2">>, <<"3">>}
    /\ pc' = "exit"
    /\ out' = <<MsgInvalidOption>>
    /\ UNCHANGED <<row, history, encoders, plotted, args, ret>>

\* any other choice
InvalidChoiceStep(choice) ==
    /\ pc = "menu"
    /\ choice \notin {<<"1">>, <<"2">>, <<"3">>}
    /\ out' = <<MsgInvalidOption>>
    /\ UNCHANGED <<pc, row, history, encoders, plotted, args, ret>>

InvalidChoice == \E choice \in MenuInputs : InvalidChoiceStep(choice)

ReadBedtimeLine(text) ==
    /\ pc = "bedtime"
    /\ LET t == parse_time(text)
       IN  IF t.ok
           THEN /\ row' = Bind(row, "bedtime", t.hour)
                /\ pc' = "wake_time"
                /\ out' = <<>>
           ELSE /\ out' = <<t.msg>>
                /\ UNCHANGED <<pc, row>>
    /\ UNCHANGED <<history, encoders, plotted, args, ret>>

ReadBedtime == \E text \in TimeInputs : ReadBedtimeLine(text)

\* the wake-up time, then calculate_sleep_duration and its messages
ReadWakeTimeLine(text) ==
    /\ pc = "wake_time"
    /\ LET t == parse_time(text)
       IN  IF t.ok
           THEN LET raw == (t.hour - row["bedtime"]) % 24
                    d == calculate_sleep_duration(row["bedtime"], t.hour)
                IN  /\ row' = Bind(Bind(row, "wake_time", t.hour), "sleep_duration", d)
                    /\ pc' = "caffeine"
                    /\ out' = IF raw = 0 \/ raw > MaxPlausibleSleep
                              THEN <<MsgUnusual, MsgDuration>>
                              ELSE <<MsgDuration>>
           ELSE /\ out' = <<t.msg>>
                /\ UNCHANGED <<pc, row>>
    /\ UNCHANGED <<history, encoders, plotted, args, ret>>

ReadWakeTime == \E text \in TimeInputs : ReadWakeTimeLine(text)

ReadCaffeineLine(text) ==
    /\ pc = "caffeine"
    /\ LET caffeine == lower(text)
       IN  IF caffeine \in caffeine_keys
           THEN /\ row' = Bind(row, "caffeine", caffeine_map(caffeine))
                /\ pc' = "exercise"
                /\ out' = <<>>
           ELSE /\ out' = <<MsgInvalidOption>>
                /\ UNCHANGED <<pc, row>>
    /\ UNCHANGED <<history, encoders, plotted, args, ret>>

ReadCaffeine == \E text \in CaffeineInputs : ReadCaffeineLine(text)

\* a prompt answered through safe_int with no further check
ReadIntLine(text, field, next) ==
    /\ LET t == safe_int(text)
       IN  IF t.ok
           THEN /\ row' = Bind(row, field, t.val)
                /\ pc' = next
                /\ out' = <<>>
           ELSE /\ out' = <<t.msg>>
                /\ UNCHANGED <<pc, row>>
    /\ UNCHANGED <<history, encoders, plotted, args, ret>>

ReadExerciseLine(text) ==
    /\ pc = "exercise"
    /\ ReadIntLine(text, "exercise", "screen_time")

ReadExercise == \E text \in IntInputs : ReadExerciseLine(text)

ReadScreenTimeLine(text) ==
    /\ pc = "screen_time"
    /\ ReadIntLine(text, "screen_time", "stress")

ReadScreenTime == \E text \in IntInputs : ReadScreenTimeLine(text)

ReadStressLine(text) ==
    /\ pc = "stress"
    /\ LET t == safe_int(text)
       IN  IF ~t.ok
           THEN /\ out' = <<t.msg>>
                /\ UNCHANGED <<pc, row>>
           ELSE IF 1 <= t.val /\ t.val <= 10
           THEN /\ row' = Bind(row, "stress", t.val)
                /\ pc' = "mood"
                /\ out' = <<>>
           ELSE /\ out' = <<MsgStressRange>>
                /\ UNCHANGED <<pc, row>>
    /\ UNCHANGED <<history, encoders, plotted, args, ret>>

ReadStress == \E text \in IntInputs : ReadStressLine(text)

ReadMoodLine(text) ==
    /\ pc = "mood"
    /\ LET mood == lower(text)
       IN  IF mood \in mood_keys
           THEN /\ row' = Bind(row, "mood", mood_map(mood))
                /\ pc' = "interruptions"
                /\ out' = <<>>
           ELSE /\ out' = <<MsgInvalidMood>>
                /\ UNCHANGED <<pc, row>>
    /\ UNCHANGED <<history, encoders, plotted, args, ret>>

ReadMood == \E text \in MoodInputs : ReadMoodLine(text)

\* the last prompt: user_input returns the row and predict hands it to the
\* classifier
ReadInterruptionsLine(text) ==
    /\ pc = "interruptions"
    /\ ReadIntLine(text, "interruptions", "classify")

ReadInterruptions == \E text \in IntInputs : ReadInterruptionsLine(text)

\* model.predict(data)[0] (any class the classifier was fitted on), the label
\* decoded, the history entry appended, the suggestions printed; back to the
\* menu
Classify ==
    /\ pc = "classify"
    /\ \E pred \in ClassCodes :
         LET result == inverse_transform(encoders["sleep_quality"], pred)
         IN  /\ history' = Append(history, history_entry(history, row["sleep_duration"], result))
             /\ out' = Suggestions(result)
    /\ pc' = "menu"
    /\ row' = NoRow
    /\ UNCHANGED <<encoders, plotted, args, ret>>

Next ==
    \/ NewEntry \/ ViewGraph \/ CloseFigure \/ Exit \/ InvalidChoice
    \/ ReadBedtime \/ ReadWakeTime \/ ReadCaffeine \/ ReadExercise
    \/ ReadScreenTime \/ ReadStress \/ ReadMood \/ ReadInterruptions
    \/ Classify

Spec == Init /\ [][Next]_vars

---------------------------------------------------------------------------
(* The pure functions on their own: the argument is drawn from a bounded   *)
(* set and one step applies the function.                                  *)

Idle ==
    /\ row = NoRow
    /\ history = <<>>
    /\ encoders = fit_encoders
    /\ out = <<>>
    /\ plotted = NoPlot

Return(value) ==
    /\ pc = "call"
    /\ pc' = "returned"
    /\ ret' = value
    /\ UNCHANGED <<row, history, encoders, out, plotted, args>>

\* label_sleep over the rows the generator samples: sleep_duration in
\* [4, 9), screen_time in 0..179, stress in 1..10, interruptions in {0, 1}
\* (the fields the rule does not read are left out)
LabelRows ==
    [sleep_duration : (4 * DurationGrid)..(9 * DurationGrid - 1),
     screen_time : 0..179, stress : 1..10, interruptions : {0, 1}]

InitLabel == Idle /\ pc = "call" /\ ret = <<>> /\ args \in LabelRows

CallLabelSleep == Return(label_sleep(args))

SpecLabel == InitLabel /\ [][CallLabelSleep]_vars

\* calculate_sleep_duration over every pair of hours parse_time can return
InitDuration ==
    Idle /\ pc = "call" /\ ret = <<>> /\ args \in [bed : 0..23, wake : 0..23]

CallSleepDuration == Return(calculate_sleep_duration(args.bed, args.wake))

SpecDuration == InitDuration /\ [][CallSleepDuration]_vars

\* parse_time over every line of at most MaxLen characters of ParseAlphabet
MaxLen == 5

ParseAlphabet == {"0", "1", "2", "6", " ", ":", "a", "p", "m", "P"}

Lines == UNION {[1..n -> ParseAlphabet] : n \in 0..MaxLen}

InitParse == Idle /\ pc = "call" /\ ret = <<>> /\ args \in Lines

CallParseTime == Return(parse_time(args))

SpecParse == InitParse /\ [][CallParseTime]_vars

---------------------------------------------------------------------------
(* Properties of the pure functions                                        *)

\* C3: label_sleep returns exactly one label, decided in order: Good if
\* sleep_duration >= 7 and screen_time < 60 and stress <= 4 and no
\* interruptions; otherwise Average if sleep_duration >= 6; otherwise Poor.
\* The boundaries 7 hours, 6 hours and stress 4 are inclusive.
GoodPredicate(r) ==
    /\ r.sleep_duration >= 7 * DurationGrid
    /\ r.screen_time < 60
    /\ r.stress <= 4
    /\ r.interruptions = 0

C3_LabelRule ==
    pc = "returned" =>
        /\ ret \in QualityLabels
        /\ (ret = StrGood) <=> GoodPredicate(args)
        /\ (ret = StrAverage) <=> (~GoodPredicate(args) /\ args.sleep_duration >= 6 * DurationGrid)
        /\ (ret = StrPoor) <=> (~GoodPredicate(args) /\ args.sleep_duration < 6 * DurationGrid)
        /\ (args.sleep_duration = 7 * DurationGrid /\ args.stress = 4
            /\ args.screen_time < 60 /\ args.interruptions = 0 => ret = StrGood)
        /\ (args.sleep_duration = 6 * DurationGrid => ret = StrAverage)

\* the inclusive boundaries of Good: exactly 7 hours, stress exactly 4,
\* screen time 59
C3_Witness ==
    /\ pc = "returned"
    /\ args = [sleep_duration |-> 7 * DurationGrid, screen_time |-> 59,
               stress |-> 4, interruptions |-> 0]
    /\ ret = StrGood

\* C4: calculate_sleep_duration returns (wake - bed) mod 24 when that is
\* between 1 and 14, and 8 when it is 0 or above 14; calc(22, 6) = 8,
\* calc(22, 22) = 8, calc(8, 23) = 8; the result is always in 1..14.
HoursBetween(bed, wake) == IF wake >= bed THEN wake - bed ELSE wake - bed + 24

C4_SleepDuration ==
    pc = "returned" =>
        LET raw == HoursBetween(args.bed, args.wake)
        IN  /\ (raw \in 1..14 => ret = raw)
            /\ (raw = 0 \/ raw > 14 => ret = 8)
            /\ ret \in 1..14
            /\ (args = [bed |-> 22, wake |-> 6] => ret = 8)
            /\ (args = [bed |-> 22, wake |-> 22] => ret = 8)
            /\ (args = [bed |-> 8, wake |-> 23] => ret = 8)

\* 15 hours between bed and wake: the fallback
C4_Witness == pc = "returned" /\ args = [bed |-> 8, wake |-> 23] /\ ret = 8

\* C5: parse_time returns the 24-hour equivalent of "<h> am|pm" (any letter
\* case, with or without the space), HH of "HH:MM", and a bare hour 0..23
\* itself; whatever the line, a returned hour is in 0..23.
RECURSIVE Decimal(_)
Decimal(n) == IF n < 10 THEN <<Digits[n + 1]>> ELSE Decimal(n \div 10) \o <<Digits[(n % 10) + 1]>>

TwoDigits(n) == <<Digits[(n \div 10) + 1], Digits[(n % 10) + 1]>>

TwelveHourCases ==
    {<<Decimal(h) \o sp \o <<x, y>>, IF x \in {"a", "A"} THEN (h % 12) ELSE (h % 12) + 12>> :
        h \in 1..12, sp \in {<<>>, <<" ">>}, x \in {"a", "A", "p", "P"}, y \in {"m", "M"}}

ClockCases == {<<TwoDigits(hh) \o <<":">> \o TwoDigits(mm), hh>> : hh \in 0..23, mm \in 0..59}

BareHourCases == {<<Decimal(h), h>> : h \in 0..23}

AcceptedCases == TwelveHourCases \cup ClockCases \cup BareHourCases

AcceptedLines == {c[1] : c \in AcceptedCases}

ExpectedHour == [l \in AcceptedLines |-> (CHOOSE c \in AcceptedCases : c[1] = l)[2]]

C5_ParseTime ==
    pc = "returned" =>
        /\ (ret.ok => ret.hour \in 0..23)
        /\ (args \in AcceptedLines => ret = [ok |-> TRUE, hour |-> ExpectedHour[args]])
        /\ (args = <<"1", "0", " ", "p", "m">> => ret = [ok |-> TRUE, hour |-> 22])
        /\ (args = <<"6", " ", "a", "m">> => ret = [ok |-> TRUE, hour |-> 6])
        /\ (args = <<"1", "2", " ", "a", "m">> => ret = [ok |-> TRUE, hour |-> 0])
        /\ (args = <<"1", "2", " ", "p", "m">> => ret = [ok |-> TRUE, hour |-> 12])
        /\ (args = <<"2", "2", ":", "0", "0">> => ret = [ok |-> TRUE, hour |-> 22])
        /\ (args = <<"6">> => ret = [ok |-> TRUE, hour |-> 6])

\* midnight: "12 am" is hour 0
C5_Witness ==
    /\ pc = "returned"
    /\ args = <<"1", "2", " ", "a", "m">>
    /\ ret = [ok |-> TRUE, hour |-> 0]

---------------------------------------------------------------------------
(* Properties of the session                                               *)

\* C1: the integer code user_input puts into the row for a caffeine or mood
\* category is the code the fitted encoder gave that category in the
\* training table.
C1_EncodingConsistent ==
    /\ "caffeine" \in DOMAIN row =>
          \A c \in Range(CaffeineCategories) :
              caffeine_map(lower(c)) = row["caffeine"]
                  => transform(encoders["caffeine"], c) = row["caffeine"]
    /\ "mood" \in DOMAIN row =>
          \A c \in Range(MoodCategories) :
              mood_map(lower(c)) = row["mood"]
                  => transform(encoders["mood"], c) = row["mood"]

\* C2: every row handed to the classifier has bedtime and wake_time in
\* 0..23, exercise >= 0, screen_time >= 0, stress in 1..10 and interruptions
\* in {0, 1}.
C2_RowInRange ==
    pc = "classify" =>
        /\ row["bedtime"] \in 0..23
        /\ row["wake_time"] \in 0..23
        /\ row["exercise"] >= 0
        /\ row["screen_time"] >= 0
        /\ row["stress"] \in 1..10
        /\ row["interruptions"] \in {0, 1}

\* C6: a malformed line at a field prompt (non-numeric text at an integer
\* prompt, an unparseable time or an out-of-range bare hour, an unknown
\* caffeine or mood name, a stress value outside 1..10) leaves the program
\* at the same prompt, with the fields accepted so far and the history
\* untouched, and does not end the program.
SignedDecimalCases ==
    {<<sign \o Decimal(n), IF sign = <<"-">> THEN 0 - n ELSE n>> :
        sign \in {<<>>, <<"+">>, <<"-">>}, n \in 0..99}

SignedDecimalLines == {c[1] : c \in SignedDecimalCases}

DecimalValueOf(text) == (CHOOSE c \in SignedDecimalCases : c[1] = text)[2]

NonNumeric(text) == text \notin SignedDecimalLines

MalformedTime(text) == text \notin AcceptedLines

StressOutOfRange(text) == text \in SignedDecimalLines /\ DecimalValueOf(text) \notin 1..10

UnknownName(text, names) == \A i \in DOMAIN names : lower(text) # lower(names[i])

MalformedTimes == {t \in TimeInputs : MalformedTime(t)}
NonNumerics == {t \in IntInputs : NonNumeric(t)}
StressesOutOfRange == {t \in IntInputs : StressOutOfRange(t)}
UnknownCaffeines == {t \in CaffeineInputs : UnknownName(t, CaffeineCategories)}
UnknownMoods == {t \in MoodInputs : UnknownName(t, MoodCategories)}

Reprompted ==
    /\ pc' = pc
    /\ row' = row
    /\ history' = history
    /\ pc' # "exit"

C6_MalformedInputReprompts ==
    [][ /\ \A t \in MalformedTimes : ReadBedtimeLine(t) \/ ReadWakeTimeLine(t) => Reprompted
        /\ \A t \in NonNumerics :
              (\/ ReadExerciseLine(t) \/ ReadScreenTimeLine(t)
               \/ ReadStressLine(t) \/ ReadInterruptionsLine(t)) => Reprompted
        /\ \A t \in StressesOutOfRange : ReadStressLine(t) => Reprompted
        /\ \A t \in UnknownCaffeines : ReadCaffeineLine(t) => Reprompted
        /\ \A t \in UnknownMoods : ReadMoodLine(t) => Reprompted
      ]_vars

\* a stress value outside 1..10 was just refused: still at the stress prompt,
\* the five fields read before it still bound
C6_Witness ==
    /\ pc = "stress"
    /\ out = <<MsgStressRange>>
    /\ DOMAIN row = {"bedtime", "wake_time", "sleep_duration", "caffeine",
                     "exercise", "screen_time"}
    /\ Len(history) = 1

\* C7: the history is an append-only log with day numbers 1, 2, ...: each
\* completed prediction appends exactly one entry, the i-th entry has
\* day = i, and the entries of a state are a prefix of those of every later
\* state.
C7_HistoryAppendOnly ==
    [][ /\ Len(history') >= Len(history)
        /\ SubSeq(history', 1, Len(history)) = history
        /\ (pc = "classify" => Len(history') = Len(history) + 1)
        /\ (pc # "classify" => history' = history)
        /\ \A i \in DOMAIN history' : history'[i].day = i
      ]_vars

C7_Witness ==
    /\ Len(history) = 2
    /\ history[1].day = 1
    /\ history[2].day = 2
    /\ history[1].sleep_duration # history[2].sleep_duration

\* C8: the loop starts at the menu; from the menu it goes to a new entry, to
\* the graph or to the end; it ends only from the menu, by choice "3", which
\* the menu always allows, and nothing happens after the end; from the
\* classifier call of a new entry and from the graph it is back at the menu.
FieldPrompts ==
    <<"bedtime", "wake_time", "caffeine", "exercise", "screen_time", "stress",
      "mood", "interruptions", "classify">>

C8_SessionLoop ==
    /\ pc = "menu"
    /\ [][ /\ pc # "exit"
           /\ (pc = "menu" => pc' \in {"menu", "bedtime", "plotting", "exit"})
           /\ (pc = "menu" => ENABLED Exit)
           /\ (pc' = "exit" => pc = "menu" /\ ExitStep(<<"3">>))
           /\ (pc = "classify" => pc' = "menu")
           /\ (pc = "plotting" => pc' = "menu")
           /\ \A i \in 1..8 :
                 pc = FieldPrompts[i] => pc' \in {FieldPrompts[i], FieldPrompts[i + 1]}
         ]_vars

\* the program has ended after one prediction
C8_Witness == pc = "exit" /\ Len(history) = 1 /\ out = <<MsgGoodNight>>

\* C9: for every fitted encoder and every category s of its vocabulary,
\* decode(encode(s)) = s; the label of every history entry is one of Good,
\* Average, Poor and decodes a class code of the classifier.
C9_EncoderRoundTrip ==
    /\ \A col \in DOMAIN encoders :
          \A s \in Range(encoders[col]) :
              inverse_transform(encoders[col], transform(encoders[col], s)) = s
    /\ \A i \in DOMAIN history :
          /\ history[i].sleep_quality \in QualityLabels
          /\ \E code \in 0..2 :
                history[i].sleep_quality = encoders["sleep_quality"][code + 1]

C9_Witness ==
    /\ Len(history) = 2
    /\ history[1].sleep_quality = StrGood
    /\ history[2].sleep_quality = StrPoor

\* C10: only the classifier step of a new entry changes the history; an
\* unrecognised menu choice leaves the program at the menu with nothing
\* changed; choice "2" leaves the history as it is, prints a message and
\* plots nothing when it is empty, and otherwise hands plt.plot every day,
\* every duration and every quality (Poor 1, Average 2, Good 3).
QualityLevel(label) ==
    CASE label = StrPoor -> 1 [] label = StrAverage -> 2 [] label = StrGood -> 3

C10_OnlyNewEntryChangesState ==
    [][ /\ (history' # history => pc = "classify")
        /\ \A c \in MenuInputs :
              InvalidChoiceStep(c) =>
                  pc' = "menu" /\ history' = history /\ row' = row /\ plotted' = plotted
        /\ \A c \in MenuInputs :
              ViewGraphStep(c) =>
                  /\ history' = history
                  /\ IF history = <<>>
                     THEN out' = <<MsgNoData>> /\ plotted' = NoPlot /\ pc' = "menu"
                     ELSE /\ pc' = "plotting"
                          /\ DOMAIN plotted'.days = DOMAIN history
                          /\ DOMAIN plotted'.durations = DOMAIN history
                          /\ DOMAIN plotted'.quality_values = DOMAIN history
                          /\ \A i \in DOMAIN history :
                                /\ plotted'.days[i] = history[i].day
                                /\ plotted'.durations[i] = history[i].sleep_duration
                                /\ plotted'.quality_values[i]
                                       = QualityLevel(history[i].sleep_quality)
      ]_vars

\* the figure shows a two-entry history
C10_Witness ==
    /\ pc = "plotting"
    /\ Len(history) = 2
    /\ plotted.days = <<1, 2>>
    /\ history[1].sleep_quality = StrPoor
    /\ history[2].sleep_quality = StrGood
    /\ plotted.quality_values = <<1, 3>>

=============================================================================
